---- MODULE Spec2Model ----
(***************************************************************************)
(* The validation scheduler of the LAX linter language server: the event   *)
(* handlers of the server module (onDidChangeConfiguration, onDidClose,    *)
(* onDidChangeContent, onDidSave), triggerValidation and the asynchronous  *)
(* validateTextDocument with its two suspension points (the awaited        *)
(* window/workDoneProgress/create request and the awaited                  *)
(* Analyzer.analyze).  Handlers run to completion on the single Node.js    *)
(* thread, so every handler and every continuation of an await is one      *)
(* atomic action.                                                          *)
(***************************************************************************)
EXTENDS Integers, FiniteSets, Sequences, TLC

\* ---- bounds of the model ----
MaxVer == 3     \* text versions the host creates (didOpen + didChange), over all documents
MaxRuns == 2    \* progress tokens handed out by progressCounter++
MaxLen == 6     \* characters of a document text handed to the PHP pre-processing
MaxViolations == 2  \* violations in a result of the rule engine
MaxNodes == 2   \* offending nodes of a violation
MaxText == 3    \* characters of a document text handed to the legacy range resolution
MaxSnippet == 2 \* characters of a markup snippet (element.outerHTML, node.html)

\* ---- the documents of the editor host ----
URIs == {"A", "B"}

\* languageId of the document behind each URI
LangOf(u) == IF u = "A" THEN "html" ELSE "php"

\* UTF-8 byte lengths a text can have (Buffer.byteLength)
Sizes == {1, 2}

\* A reference to a TextDocument object, as captured by a timer callback or by
\* an activation of validateTextDocument.  The manager creates one object per
\* didOpen and updates it in place on didChange, so a reference to the object
\* of an open document reads the current text: Live(u).  didClose drops the
\* object from the manager and didOpen creates a new one, so a reference that
\* outlives the close reads the text the object had at that moment for ever:
\* Detached(u, ver, size).
Live(u) == <<u, 0, 0>>
Detached(u, v, sz) == <<u, v, sz>>
DocRefs == URIs \X (0..MaxVer) \X ({0} \cup Sizes)

\* ---- settings ----
DefaultMaxFileSize == 1048576
DefaultDebounceDelay == 500

defaultSettings ==
    [enable |-> TRUE, run |-> "onType", maxFileSize |-> DefaultMaxFileSize,
     includedLanguages |-> {"html", "php"}, debounceDelay |-> DefaultDebounceDelay]

\* what a didChangeConfiguration notification can carry in settings.laxLinter:
\* the defaults with the linter disabled, with the onSave mode, or with a size
\* cap of one byte and html as the only included language
ClientSettings ==
    {[defaultSettings EXCEPT !.enable = FALSE],
     [defaultSettings EXCEPT !.run = "onSave"],
     [defaultSettings EXCEPT !.maxFileSize = 1, !.includedLanguages = {"html"}]}

\* change.settings.laxLinter || defaultSettings
SettingsDomain == ClientSettings \cup {defaultSettings}

\* ---- host side: the diagnostic array shown for a URI ----
\* the number of diagnostics in the array (0: the empty array, or none sent yet)
Clear == 0

\* validationTimeout: undefined, the handle of a pending timer (the document its
\* callback captured), or the handle of a timer that already ran
NoTimer == <<"undefined", 0, 0>>
Fired == <<"fired", 0, 0>>
NoBurst == [uri |-> "-", n |-> 0, stage |-> "-"]

\* the textDocument of an activation that has already read its text
TextRead == <<"read", 0, 0>>

VARIABLES
    documents,            \* TextDocuments manager: the open URIs, in insertion order
    texts,                \* per URI, the text of its current TextDocument object: [ver, size]
    currentSettings,
    validationTimeout,    \* the one timer handle
    timers,               \* the timer callbacks pending in the event loop, per captured document
    validatingDocuments,  \* the lock set
    progressCounter,
    runs,                 \* suspended activations of validateTextDocument
    published,            \* per URI, the diagnostic array last sent to the host
    pubVer,               \* history: per URI, the text version of the analysis result last published
    burst,                \* history: the burst of onType edits under way and how far its call got
    followupOwed,         \* history: per URI, an onType edit arrived while its analysis was in flight
    afterSave,            \* history: per URI, a save started an activation while its timer was pending
    pc,                   \* Analyzer.analyze: the position of the call
    documentText,         \* Analyzer.analyze: let documentText
    originalText,         \* history: the text analyze read from the document
    settings,             \* Analyzer: this.settings.axe
    results,              \* what runA11yChecks() resolves to
    rulesToRun,           \* the runOnly option handed to axe.run
    diagnostics,          \* Analyzer.analyze: const diagnostics
    failed,               \* history: the steps of the call that failed
    sent,                 \* the progress notifications sent for the token of the call
    timeoutDelay,         \* the delay handed to the setTimeout that armed validationTimeout
    cursor,               \* legacy server: the violation and the node the forEach loops stand at
    sendDiagnosticsCalls  \* history: the calls of connection.sendDiagnostics by the activation

serverVars == <<documents, texts, currentSettings, validationTimeout, timers,
                validatingDocuments, progressCounter, runs, published, pubVer, burst,
                followupOwed, afterSave>>

analyzeVars == <<pc, documentText, originalText, settings, results, rulesToRun,
                 diagnostics, failed, sent>>

vars == <<serverVars, analyzeVars, timeoutDelay, cursor, sendDiagnosticsCalls>>

\* ---- helpers ----
Range(s) == {s[i] : i \in 1..Len(s)}

IsOpen(u) == u \in Range(documents)

\* textDocument.getText(), through a reference
TextOf(d) == IF d[2] = 0 THEN texts[d[1]] ELSE [ver |-> d[2], size |-> d[3]]

\* the reference d once the manager has dropped the object of u
Freeze(d, u) == IF d = Live(u) THEN Detached(u, texts[u].ver, texts[u].size) ELSE d

\* the text versions created so far
RECURSIVE Versions(_)
Versions(S) ==
    IF S = {} THEN 0
    ELSE LET u == CHOOSE x \in S : TRUE IN texts[u].ver + Versions(S \ {u})

RemoveUri(s, u) == SelectSeq(s, LAMBDA x : x # u)

NoTimers == [d \in DocRefs |-> 0]

PendingTimers(t) == {d \in DocRefs : t[d] > 0}

AnalysisInFlight(u) == \E r \in runs : r.uri = u /\ r.pc = "analyze"

RunsOf(u) == {r \in runs : r.uri = u}

\* ---- triggerValidation ----
\* a triggerValidation that forgets to cancel the timer it replaces
ClearTimeoutForgotten(vt, t) == t

\* clearTimeout(validationTimeout): removes the callback of the handle when it
\* is still pending; a no-op on a handle that fired.
ClearTimeout(vt, t) ==
    IF vt \in DocRefs /\ t[vt] > 0 THEN [t EXCEPT ![vt] = @ - 1] ELSE t

\* the pair <<validationTimeout, timers>> after triggerValidation(d)
triggerValidation(st, d) ==
    LET cleared == IF st[1] # NoTimer THEN ClearTimeout(st[1], st[2]) ELSE st[2]
    IN <<d, [cleared EXCEPT ![d] = @ + 1]>>

\* documents.all().forEach(doc => triggerValidation(doc))
RECURSIVE TriggerAll(_, _)
TriggerAll(st, ds) ==
    IF ds = <<>> THEN st
    ELSE TriggerAll(triggerValidation(st, Live(Head(ds))), Tail(ds))

\* the Analyzer instance: built from currentSettings when the module loads and
\* rebuilt from it by the handler that assigns currentSettings
analyzer == [settings |-> currentSettings]

\* ---- validateTextDocument, up to its first await ----
Disabled == ~currentSettings.enable

Oversized(d) ==
    currentSettings.maxFileSize > 0 /\ TextOf(d).size > currentSettings.maxFileSize

GuardsPass(d) == ~Disabled /\ ~Oversized(d)

\* a lock that is one flag for all documents
AnyInProgress(u) == validatingDocuments # {}

\* validatingDocuments.has(textDocument.uri)
AlreadyInProgress(u) == u \in validatingDocuments

\* cap (history): the maxFileSize the size guard of this activation was passed with
NewRun(d) ==
    [token |-> progressCounter, uri |-> d[1], doc |-> d, pc |-> "create", ver |-> 0,
     cap |-> currentSettings.maxFileSize, over |-> FALSE, rejected |-> FALSE]

\* history: a guard rejected a validation of u while these activations were in flight
MarkRejected(u) ==
    {IF r.uri = u THEN [r EXCEPT !.rejected = TRUE] ELSE r : r \in runs}

validateTextDocument(d) ==
    LET u == d[1] IN
    IF Disabled \/ Oversized(d)
    THEN /\ published' = [published EXCEPT ![u] = Clear]
         /\ runs' = MarkRejected(u)
         /\ UNCHANGED progressCounter
    ELSE IF AlreadyInProgress(u)
    THEN UNCHANGED <<published, runs, progressCounter>>
    ELSE /\ progressCounter < MaxRuns
         /\ runs' = runs \cup {NewRun(d)}
         /\ progressCounter' = progressCounter + 1
         /\ UNCHANGED published

StartsRun(d) == GuardsPass(d) /\ ~AlreadyInProgress(d[1])

\* ======================= Analyzer.analyze =======================

\* ---- the PHP pre-processing of the document text ----
\* A text is a sequence of characters.  LF is the newline character, BS the
\* backslash.  The letters of the optional (?:php|=) of phpRegex stand for no
\* character of their own: the group is followed by the lazy ([\s\S]*?), which
\* matches them as well, and none of them can begin the closing "?>", so the
\* group never changes where a match begins or ends.
Chars == {"<", "?", ">", "LF", "BS", "n"}

Texts == UNION {[1..k -> Chars] : k \in 0..MaxLen}

Min(S) == CHOOSE x \in S : \A y \in S : x <= y

\* a pre-processing whose block, when no "?>" follows, runs to the end of the text
MatchEndOrEof(t, i) ==
    IF i + 1 <= Len(t) /\ t[i] = "<" /\ t[i + 1] = "?"
    THEN LET closers == {e \in (i + 2)..(Len(t) - 1) : t[e] = "?" /\ t[e + 1] = ">"}
         IN IF closers = {} THEN Len(t) ELSE Min(closers) + 1
    ELSE 0

\* phpRegex tried at position i of t: the position of the last character of the
\* match ("<?", then as few characters as possible, then "?>"), 0 for no match
MatchEnd(t, i) ==
    IF i + 1 <= Len(t) /\ t[i] = "<" /\ t[i + 1] = "?"
    THEN LET closers == {e \in (i + 2)..(Len(t) - 1) : t[e] = "?" /\ t[e + 1] = ">"}
         IN IF closers = {} THEN 0 ELSE Min(closers) + 1
    ELSE 0

\* (match.match(/\\n/g) || []).length: the regular expression /\\n/ matches a
\* backslash followed by the letter n
newlineCount(match) ==
    Cardinality({j \in 1..(Len(match) - 1) : match[j] = "BS" /\ match[j + 1] = "n"})

\* '\\n'.repeat(k): the string literal '\\n' is a backslash and the letter n
RECURSIVE Repeat(_)
Repeat(k) == IF k = 0 THEN <<>> ELSE <<"BS", "n">> \o Repeat(k - 1)

replacementComment(match) ==
    <<"<", "!", "-", "-">> \o Repeat(newlineCount(match)) \o <<"-", "-", ">">>

\* documentText.replace(phpRegex, ...) from position i on: the global regular
\* expression is tried at each position from left to right and continues
\* behind a match
RECURSIVE replace(_, _)
replace(t, i) ==
    IF i > Len(t) THEN <<>>
    ELSE IF MatchEnd(t, i) = 0 THEN <<t[i]>> \o replace(t, i + 1)
    ELSE replacementComment(SubSeq(t, i, MatchEnd(t, i))) \o replace(t, MatchEnd(t, i) + 1)

\* the matches of phpRegex in t from position i on, as <<first, last>> positions
RECURSIVE Matches(_, _)
Matches(t, i) ==
    IF i > Len(t) THEN {}
    ELSE IF MatchEnd(t, i) = 0 THEN Matches(t, i + 1)
    ELSE {<<i, MatchEnd(t, i)>>} \cup Matches(t, MatchEnd(t, i) + 1)

\* ---- this.settings.axe and the results of the rule engine ----
DefaultTags == <<"wcag2aa", "wcag21aa", "best-practice">>

\* a value of settings.axe.rules: an array of rule ids, or a value that is no array
RulesArray(ids) == [kind |-> "array", items |-> ids]
RulesObject == [kind |-> "object", items |-> <<>>]

\* defaultSettings.axe
DefaultAxe == [tags |-> DefaultTags, rules |-> RulesObject]

\* a result of runA11yChecks() that is no object with violations
NoResults == [kind |-> "undefined", violations |-> <<>>]

NoRunOnly == [type |-> "-", values |-> <<>>]

\* no call of Analyzer.analyze under way
AnalyzeIdle ==
    /\ pc = "idle"
    /\ documentText = <<>>
    /\ originalText = <<>>
    /\ settings = DefaultAxe
    /\ results = NoResults
    /\ rulesToRun = NoRunOnly
    /\ diagnostics = <<>>
    /\ failed = {}
    /\ sent = <<>>

\* lines 34-52: the try block of the PHP pre-processing; its catch logs and
\* goes on with the original text
Preprocess ==
    /\ pc = "preprocess"
    /\ \/ /\ documentText' = replace(documentText, 1)
          /\ UNCHANGED failed
       \/ /\ failed' = failed \cup {"preprocess"}
          /\ UNCHANGED documentText
    /\ pc' = "dom"
    /\ UNCHANGED <<originalText, settings, results, rulesToRun, diagnostics, sent>>

\* ---- the steps of Analyzer.analyze behind the pre-processing ----
defaultRules ==
    <<"accesskeys", "area-alt", "aria-allowed-role", "aria-braille-equivalent",
      "aria-conditional-attr", "aria-deprecated-role", "aria-dialog-name",
      "aria-prohibited-attr", "aria-roledescription", "aria-treeitem-name",
      "aria-text", "audio-caption", "blink", "duplicate-id", "empty-heading",
      "frame-focusable-content", "frame-title-unique", "heading-order",
      "html-xml-lang-mismatch", "identical-links-same-purpose",
      "image-redundant-alt", "input-button-name", "label-content-name-mismatch",
      "landmark-one-main", "link-in-text-block", "marquee", "meta-viewport",
      "nested-interactive", "no-autoplay-audio", "role-img-alt",
      "scrollable-region-focusable", "select-name", "server-side-image-map",
      "skip-link", "summary-name", "svg-img-alt", "tabindex",
      "table-duplicate-name", "table-fake-caption", "target-size", "td-has-header">>

\* lines 114-116 and the runOnly option of lines 133-136
RulesToRun(axe) ==
    [type |-> "rule",
     values |-> IF axe.rules.kind = "array" /\ Len(axe.rules.items) > 0
                THEN axe.rules.items
                ELSE defaultRules]

\* String.prototype.toLowerCase on the spellings of an impact
toLowerCase(str) ==
    CASE str = "Critical" -> "critical"
      [] str = "Serious" -> "serious"
      [] str = "Moderate" -> "moderate"
      [] str = "Minor" -> "minor"
      [] OTHER -> str

\* a severity mapping whose default is Information
SeverityDefaultInformation(impact) ==
    IF impact # ""
    THEN CASE toLowerCase(impact) \in {"critical", "serious"} -> "Error"
           [] toLowerCase(impact) = "moderate" -> "Warning"
           [] toLowerCase(impact) = "minor" -> "Information"
           [] OTHER -> "Information"
    ELSE "Information"

\* lines 157-171: let severity = Warning; if (violation.impact) switch (...)
\* (the empty string stands for an absent impact: null, undefined or '')
Severity(impact) ==
    IF impact # ""
    THEN CASE toLowerCase(impact) \in {"critical", "serious"} -> "Error"
           [] toLowerCase(impact) = "moderate" -> "Warning"
           [] toLowerCase(impact) = "minor" -> "Information"
           [] OTHER -> "Warning"
    ELSE "Warning"

\* line 154: the placeholder range
ZeroRange == [startLine |-> 0, startChar |-> 0, endLine |-> 0, endChar |-> 0]

\* lines 173-183: the diagnostic of one violation
DiagnosticOf(violation) ==
    [severity |-> Severity(violation.impact),
     range |-> ZeroRange,
     code |-> violation.id,
     href |-> violation.helpUrl]

\* a try block that leaves the call of runA11yChecks uncovered
InTryExceptRun(step) == step \in {"preprocess", "dom", "inject", "define", "process"}

\* the steps that lie in a try block (lines 34-52 and 54-193)
InTry(step) == step \in {"preprocess", "dom", "inject", "define", "run", "process"}

\* a step throws: the catch of line 191 logs and the call goes on to line 195;
\* an exception outside every try block rejects the promise
Throw(step) ==
    /\ failed' = failed \cup {step}
    /\ pc' = IF InTry(step) THEN "return" ELSE "rejected"

\* lines 55-62: the report, then new JSDOM(documentText, ...)
CreateDom ==
    /\ pc = "dom"
    /\ sent' = Append(sent, "Creating DOM...")
    /\ \/ pc' = "inject" /\ UNCHANGED failed
       \/ Throw("dom")
    /\ UNCHANGED <<documentText, originalText, settings, results, rulesToRun, diagnostics>>

\* lines 64-67: the report, then dom.window.eval(axeSource)
InjectAxe ==
    /\ pc = "inject"
    /\ sent' = Append(sent, "Injecting axe-core...")
    /\ \/ pc' = "define" /\ UNCHANGED failed
       \/ Throw("inject")
    /\ UNCHANGED <<documentText, originalText, settings, results, rulesToRun, diagnostics>>

\* lines 113-139: the rule list and the definition of window.runA11yChecks
DefineChecks ==
    /\ pc = "define"
    /\ \/ /\ rulesToRun' = RulesToRun(settings)
          /\ pc' = "run"
          /\ UNCHANGED failed
       \/ Throw("define") /\ UNCHANGED rulesToRun
    /\ UNCHANGED <<documentText, originalText, settings, results, diagnostics, sent>>

\* lines 141-146 and 187-189: the report; runA11yChecks is called when it is a
\* function and its promise awaited, and the report of the result processing
\* follows; otherwise the error is logged
RunChecks ==
    /\ pc = "run"
    /\ \/ /\ pc' = "process"
          /\ sent' = sent \o <<"Running axe-core analysis...", "Processing results...">>
          /\ UNCHANGED failed
       \/ /\ Throw("run")
          /\ sent' = Append(sent, "Running axe-core analysis...")
       \/ /\ pc' = "return"
          /\ failed' = failed \cup {"missing"}
          /\ sent' = Append(sent, "Running axe-core analysis...")
    /\ UNCHANGED <<documentText, originalText, settings, results, rulesToRun, diagnostics>>

\* lines 148-150: results is an object with violations
HasViolations == results.kind = "object"

\* lines 150-185: one round of axeResults.violations.forEach
ProcessViolation ==
    /\ pc = "process"
    /\ HasViolations
    /\ Len(diagnostics) < Len(results.violations)
    /\ \/ /\ diagnostics' =
                Append(diagnostics, DiagnosticOf(results.violations[Len(diagnostics) + 1]))
          /\ UNCHANGED <<pc, failed>>
       \/ Throw("process") /\ UNCHANGED diagnostics
    /\ UNCHANGED <<documentText, originalText, settings, results, rulesToRun, sent>>

\* the forEach is over, or line 148 found nothing to process
ProcessDone ==
    /\ pc = "process"
    /\ HasViolations => Len(diagnostics) = Len(results.violations)
    /\ pc' = "return"
    /\ UNCHANGED <<documentText, originalText, settings, results, rulesToRun,
                   diagnostics, failed, sent>>

\* line 195: return diagnostics
Return ==
    /\ pc = "return"
    /\ pc' = "resolved"
    /\ UNCHANGED <<documentText, originalText, settings, results, rulesToRun,
                   diagnostics, failed, sent>>

\* ---- Init ----
ServerInit ==
    /\ documents = <<>>
    /\ texts = [u \in URIs |-> [ver |-> 0, size |-> 0]]
    /\ currentSettings = defaultSettings
    /\ validationTimeout = NoTimer
    /\ timers = NoTimers
    /\ validatingDocuments = {}
    /\ progressCounter = 0
    /\ runs = {}
    /\ published = [u \in URIs |-> Clear]
    /\ pubVer = [u \in URIs |-> 0]
    /\ burst = NoBurst
    /\ followupOwed = [u \in URIs |-> FALSE]
    /\ afterSave = [u \in URIs |-> FALSE]

Init == ServerInit /\ AnalyzeIdle /\ timeoutDelay = 0 /\ cursor = <<1, 1>> /\ sendDiagnosticsCalls = 0

\* ---- the handlers ----

\* documents.onDidChangeContent, as to the timer state
onDidChangeContent(d) ==
    IF currentSettings.run = "onType"
    THEN /\ validationTimeout' = triggerValidation(<<validationTimeout, timers>>, d)[1]
         /\ timers' = triggerValidation(<<validationTimeout, timers>>, d)[2]
    ELSE UNCHANGED <<validationTimeout, timers>>

\* textDocument/didOpen: the manager creates the TextDocument object and fires
\* onDidOpen and onDidChangeContent.
DidOpen(u, sz) ==
    /\ ~IsOpen(u)
    /\ Versions(URIs) < MaxVer
    /\ documents' = Append(documents, u)
    /\ texts' = [texts EXCEPT ![u] = [ver |-> @.ver + 1, size |-> sz]]
    /\ onDidChangeContent(Live(u))
    /\ burst' = NoBurst
    /\ followupOwed' = [v \in URIs |-> FALSE]
    /\ afterSave' = [v \in URIs |-> FALSE]
    /\ UNCHANGED <<currentSettings, validatingDocuments, progressCounter, runs,
                   published, pubVer>>

\* textDocument/didChange: the manager updates the object in place and fires
\* onDidChangeContent.
DidChange(u, sz) ==
    /\ IsOpen(u)
    /\ Versions(URIs) < MaxVer
    /\ texts' = [texts EXCEPT ![u] = [ver |-> @.ver + 1, size |-> sz]]
    /\ onDidChangeContent(Live(u))
    /\ burst' = IF currentSettings.run # "onType" \/ RunsOf(u) # {} THEN NoBurst
                ELSE IF burst.uri = u /\ burst.stage = "armed"
                THEN [uri |-> u, n |-> 2, stage |-> "armed"]
                ELSE [uri |-> u, n |-> 1, stage |-> "armed"]
    /\ followupOwed' = [v \in URIs |->
                           v = u /\ currentSettings.run = "onType" /\ AnalysisInFlight(u)]
    /\ afterSave' = [v \in URIs |-> FALSE]
    /\ UNCHANGED <<documents, currentSettings, validatingDocuments,
                   progressCounter, runs, published, pubVer>>

\* documents.onDidSave
onDidSave(u) ==
    /\ IsOpen(u)
    /\ IF currentSettings.run = "onSave"
       THEN validateTextDocument(Live(u))
       ELSE UNCHANGED <<published, runs, progressCounter>>
    /\ burst' = NoBurst
    /\ followupOwed' = [v \in URIs |-> FALSE]
    /\ afterSave' = [afterSave EXCEPT ![u] =
                         /\ currentSettings.run = "onSave"
                         /\ StartsRun(Live(u))
                         /\ RunsOf(u) = {}
                         /\ timers[Live(u)] > 0]
    /\ UNCHANGED <<documents, texts, currentSettings, validationTimeout, timers,
                   validatingDocuments, pubVer>>

\* textDocument/didClose: the manager drops the object (the references that
\* timers and suspended activations still hold keep its last text) and fires
\* documents.onDidClose.
onDidClose(u) ==
    /\ IsOpen(u)
    /\ documents' = RemoveUri(documents, u)
    /\ texts' = [texts EXCEPT ![u].size = 0]
    /\ timers' = [d \in DocRefs |->
                     IF d = Live(u) THEN 0
                     ELSE IF d = Freeze(Live(u), u) THEN timers[d] + timers[Live(u)]
                     ELSE timers[d]]
    /\ validationTimeout' = Freeze(validationTimeout, u)
    /\ runs' = {[r EXCEPT !.doc = Freeze(@, u)] : r \in runs}
    /\ published' = [published EXCEPT ![u] = Clear]
    /\ validatingDocuments' = validatingDocuments \ {u}
    /\ burst' = NoBurst
    /\ followupOwed' = [v \in URIs |-> FALSE]
    /\ afterSave' = [v \in URIs |-> FALSE]
    /\ UNCHANGED <<currentSettings, progressCounter, pubVer>>

\* connection.onDidChangeConfiguration
onDidChangeConfiguration(s) ==
    /\ currentSettings' = s
    /\ validationTimeout' = TriggerAll(<<validationTimeout, timers>>, documents)[1]
    /\ timers' = TriggerAll(<<validationTimeout, timers>>, documents)[2]
    /\ burst' = NoBurst
    /\ followupOwed' = [v \in URIs |-> FALSE]
    /\ afterSave' = [v \in URIs |-> FALSE]
    /\ UNCHANGED <<documents, texts, validatingDocuments, progressCounter, runs,
                   published, pubVer>>

\* the setTimeout callback of triggerValidation: validateTextDocument(textDocument)
TimerFire(d) ==
    /\ timers[d] > 0
    /\ timers' = [timers EXCEPT ![d] = @ - 1]
    /\ validationTimeout' = IF validationTimeout = d THEN Fired ELSE validationTimeout
    /\ validateTextDocument(d)
    /\ burst' = IF burst.stage = "armed" /\ d[1] = burst.uri /\ GuardsPass(d)
                THEN [burst EXCEPT !.stage = "called"]
                ELSE NoBurst
    /\ followupOwed' = IF StartsRun(d) THEN [followupOwed EXCEPT ![d[1]] = FALSE]
                       ELSE followupOwed
    /\ afterSave' = [afterSave EXCEPT ![d[1]] = FALSE]
    /\ UNCHANGED <<documents, texts, currentSettings, validatingDocuments, pubVer>>

\* the create request resolves: lock, 'begin', and the synchronous head of
\* Analyzer.analyze, which reads textDocument.getText() and hands it to the DOM
\* and the rule engine.  over (history): the text handed over exceeds the cap
\* the size guard of this activation was passed with.
CreateResolved(r) ==
    /\ r \in runs
    /\ r.pc = "create"
    /\ validatingDocuments' = validatingDocuments \cup {r.uri}
    /\ runs' = (runs \ {r}) \cup
                  {[r EXCEPT !.pc = "analyze", !.doc = TextRead, !.cap = 0,
                             !.ver = TextOf(r.doc).ver,
                             !.over = r.cap > 0 /\ TextOf(r.doc).size > r.cap]}
    /\ burst' = IF burst.stage = "called" /\ r.uri = burst.uri
                THEN [burst EXCEPT !.stage = "analysing"]
                ELSE burst
    /\ UNCHANGED <<documents, texts, currentSettings, validationTimeout, timers,
                   progressCounter, published, pubVer, followupOwed, afterSave>>

\* the create request rejects: catch publishes [], finally unlocks
CreateRejected(r) ==
    /\ r \in runs
    /\ r.pc = "create"
    /\ published' = [published EXCEPT ![r.uri] = Clear]
    /\ validatingDocuments' = validatingDocuments \ {r.uri}
    /\ runs' = runs \ {r}
    /\ burst' = IF r.uri = burst.uri THEN NoBurst ELSE burst
    /\ UNCHANGED <<documents, texts, currentSettings, validationTimeout, timers,
                   progressCounter, pubVer, followupOwed, afterSave>>

\* a completion whose finally block forgets validatingDocuments.delete
AnalysisDoneKeepsLock(r, n) ==
    /\ r \in runs
    /\ r.pc = "analyze"
    /\ published' = [published EXCEPT ![r.uri] = n]
    /\ pubVer' = [pubVer EXCEPT ![r.uri] = r.ver]
    /\ runs' = runs \ {r}
    /\ burst' = IF burst.stage = "analysing" /\ r.uri = burst.uri
                THEN [burst EXCEPT !.stage = "done"]
                ELSE burst
    /\ UNCHANGED <<documents, texts, currentSettings, validationTimeout, timers,
                   validatingDocuments, progressCounter, followupOwed, afterSave>>

\* analyzer.analyze resolves with n diagnostics: publish, finally unlocks
AnalysisDone(r, n) ==
    /\ r \in runs
    /\ r.pc = "analyze"
    /\ published' = [published EXCEPT ![r.uri] = n]
    /\ pubVer' = [pubVer EXCEPT ![r.uri] = r.ver]
    /\ validatingDocuments' = validatingDocuments \ {r.uri}
    /\ runs' = runs \ {r}
    /\ burst' = IF burst.stage = "analysing" /\ r.uri = burst.uri
                THEN [burst EXCEPT !.stage = "done"]
                ELSE burst
    /\ UNCHANGED <<documents, texts, currentSettings, validationTimeout, timers,
                   progressCounter, followupOwed, afterSave>>

Next ==
    \/ \E u \in URIs, sz \in Sizes : DidOpen(u, sz) /\ UNCHANGED <<analyzeVars, timeoutDelay, cursor, sendDiagnosticsCalls>>
    \/ \E u \in URIs, sz \in Sizes : DidChange(u, sz) /\ UNCHANGED <<analyzeVars, timeoutDelay, cursor, sendDiagnosticsCalls>>
    \/ \E u \in URIs : onDidSave(u) /\ UNCHANGED <<analyzeVars, timeoutDelay, cursor, sendDiagnosticsCalls>>
    \/ \E u \in URIs : onDidClose(u) /\ UNCHANGED <<analyzeVars, timeoutDelay, cursor, sendDiagnosticsCalls>>
    \/ \E s \in SettingsDomain : onDidChangeConfiguration(s) /\ UNCHANGED <<analyzeVars, timeoutDelay, cursor, sendDiagnosticsCalls>>
    \/ \E d \in DocRefs : TimerFire(d) /\ UNCHANGED <<analyzeVars, timeoutDelay, cursor, sendDiagnosticsCalls>>
    \/ \E r \in runs : CreateResolved(r) /\ UNCHANGED <<analyzeVars, timeoutDelay, cursor, sendDiagnosticsCalls>>
    \/ \E r \in runs : CreateRejected(r) /\ UNCHANGED <<analyzeVars, timeoutDelay, cursor, sendDiagnosticsCalls>>
    \/ \E r \in runs, n \in 0..1 : AnalysisDone(r, n) /\ UNCHANGED <<analyzeVars, timeoutDelay, cursor, sendDiagnosticsCalls>>

Spec == Init /\ [][Next]_vars

\* ---- triggerValidation with the configured debounce delays ----
DelayDomain == {-1, 0, 1, DefaultDebounceDelay}

\* what a didChangeConfiguration notification carries here: the defaults with
\* a debounceDelay of its own
TimedSettings == {[defaultSettings EXCEPT !.debounceDelay = dd] : dd \in DelayDomain}

\* a delay that hands a negative debounceDelay on to setTimeout
DebounceMsUnchecked(s) == s.debounceDelay

\* line 101: currentSettings.debounceDelay >= 0 ? currentSettings.debounceDelay : 500
DebounceMs(s) == IF s.debounceDelay >= 0 THEN s.debounceDelay ELSE 500

\* the delay of the armed timer behind a handler that called triggerValidation
\* (armed) or did not
SetTimeout(armed) ==
    timeoutDelay' = IF armed THEN DebounceMs(currentSettings') ELSE timeoutDelay

NextDelay ==
    \/ \E u \in URIs, sz \in Sizes :
          DidOpen(u, sz) /\ SetTimeout(currentSettings.run = "onType") /\ UNCHANGED <<analyzeVars, cursor, sendDiagnosticsCalls>>
    \/ \E u \in URIs, sz \in Sizes :
          DidChange(u, sz) /\ SetTimeout(currentSettings.run = "onType") /\ UNCHANGED <<analyzeVars, cursor, sendDiagnosticsCalls>>
    \/ \E s \in TimedSettings :
          onDidChangeConfiguration(s) /\ SetTimeout(documents # <<>>) /\ UNCHANGED <<analyzeVars, cursor, sendDiagnosticsCalls>>
    \/ \E d \in DocRefs : TimerFire(d) /\ UNCHANGED <<analyzeVars, timeoutDelay, cursor, sendDiagnosticsCalls>>
    \/ \E r \in runs : CreateResolved(r) /\ UNCHANGED <<analyzeVars, timeoutDelay, cursor, sendDiagnosticsCalls>>
    \/ \E r \in runs, n \in 0..1 : AnalysisDone(r, n) /\ UNCHANGED <<analyzeVars, timeoutDelay, cursor, sendDiagnosticsCalls>>

SpecDelay == Init /\ [][NextDelay]_vars

\* ---- the PHP pre-processing applied to every text of at most MaxLen characters ----
\* the fixed result of the rule engine in this specification: no violation
NoViolations == [kind |-> "object", violations |-> <<>>]

InitNeutralize ==
    /\ ServerInit
    /\ pc = "preprocess"
    /\ documentText \in Texts
    /\ originalText = documentText
    /\ settings = DefaultAxe
    /\ results = NoViolations
    /\ rulesToRun = NoRunOnly
    /\ diagnostics = <<>>
    /\ failed = {}
    /\ sent = <<>>
    /\ timeoutDelay = 0
    /\ cursor = <<1, 1>> /\ sendDiagnosticsCalls = 0

NextNeutralize == Preprocess /\ UNCHANGED <<serverVars, timeoutDelay, cursor, sendDiagnosticsCalls>>

SpecNeutralize == InitNeutralize /\ [][NextNeutralize]_vars

\* ---- Analyzer.analyze applied to the results the rule engine can deliver ----
RuleIds == {"image-alt", "label"}

HelpUrl(id) == IF id = "image-alt" THEN "https://rules/image-alt" ELSE "https://rules/label"

\* violation.impact: the four impact values of the rule engine, a capitalised
\* spelling, an absent impact and a value unknown to the analyzer
Impacts == {"critical", "serious", "moderate", "minor", "Serious", "", "cosmetic"}

\* an offending node: whether its selector resolves to an element with a
\* recorded source location, and that location (1-based lines, 0-based columns)
LocatedNode == [found |-> TRUE, startLine |-> 2, startCol |-> 3, endLine |-> 3, endCol |-> 1]
UnresolvedNode == [found |-> FALSE, startLine |-> 0, startCol |-> 0, endLine |-> 0, endCol |-> 0]
Nodes == {LocatedNode, UnresolvedNode}

NodeLists == UNION {[1..k -> Nodes] : k \in 1..MaxNodes}

Violations ==
    {[id |-> id, impact |-> im, helpUrl |-> HelpUrl(id), nodes |-> ns] :
        id \in RuleIds, im \in Impacts, ns \in NodeLists}

ResultsDomain ==
    {NoResults} \cup
    {[kind |-> "object", violations |-> vs] :
        vs \in UNION {[1..k -> Violations] : k \in 0..MaxViolations}}

AxeSettingsDomain ==
    {[tags |-> tg, rules |-> ru] :
        tg \in {<<>>, DefaultTags},
        ru \in {RulesObject, RulesArray(<<>>), RulesArray(<<"image-alt">>)}}

\* the text of the document in this specification: a PHP block and a character
SampleText == <<"<", "?", "LF", "?", ">", "n">>

InitAnalyze ==
    /\ ServerInit
    /\ pc = "preprocess"
    /\ documentText = SampleText
    /\ originalText = documentText
    /\ settings \in AxeSettingsDomain
    /\ results \in ResultsDomain
    /\ rulesToRun = NoRunOnly
    /\ diagnostics = <<>>
    /\ failed = {}
    /\ sent = <<>>
    /\ timeoutDelay = 0
    /\ cursor = <<1, 1>> /\ sendDiagnosticsCalls = 0

NextAnalyze ==
    \/ Preprocess /\ UNCHANGED <<serverVars, timeoutDelay, cursor, sendDiagnosticsCalls>>
    \/ CreateDom /\ UNCHANGED <<serverVars, timeoutDelay, cursor, sendDiagnosticsCalls>>
    \/ InjectAxe /\ UNCHANGED <<serverVars, timeoutDelay, cursor, sendDiagnosticsCalls>>
    \/ DefineChecks /\ UNCHANGED <<serverVars, timeoutDelay, cursor, sendDiagnosticsCalls>>
    \/ RunChecks /\ UNCHANGED <<serverVars, timeoutDelay, cursor, sendDiagnosticsCalls>>
    \/ ProcessViolation /\ UNCHANGED <<serverVars, timeoutDelay, cursor, sendDiagnosticsCalls>>
    \/ ProcessDone /\ UNCHANGED <<serverVars, timeoutDelay, cursor, sendDiagnosticsCalls>>
    \/ Return /\ UNCHANGED <<serverVars, timeoutDelay, cursor, sendDiagnosticsCalls>>

SpecAnalyze == InitAnalyze /\ [][NextAnalyze]_vars

\* ---- one activation of validateTextDocument behind its guards ----
\* the document the activation was called with
ProgressUri == "A"

\* what the activation finds: the lock set other activations hold and the
\* document of the debounce timer that is pending, if any
ProgressStarts ==
    {[lock |-> {}, timer |-> NoTimer],
     [lock |-> {"B"}, timer |-> Live("B")],
     [lock |-> {ProgressUri}, timer |-> Live(ProgressUri)],
     [lock |-> {ProgressUri}, timer |-> NoTimer]}

\* the activation stands at the in-progress check of line 118
InitProgress ==
    /\ documents = <<ProgressUri>>
    /\ texts = [u \in URIs |-> IF u = ProgressUri THEN [ver |-> 1, size |-> 1]
                                                   ELSE [ver |-> 0, size |-> 0]]
    /\ currentSettings = defaultSettings
    /\ \E start \in ProgressStarts :
          /\ validationTimeout = start.timer
          /\ timers = [d \in DocRefs |-> IF d = start.timer THEN 1 ELSE 0]
          /\ validatingDocuments = start.lock
    /\ progressCounter = 0
    /\ runs = {}
    /\ published = [u \in URIs |-> Clear]
    /\ pubVer = [u \in URIs |-> 0]
    /\ burst = NoBurst
    /\ followupOwed = [u \in URIs |-> FALSE]
    /\ afterSave = [u \in URIs |-> FALSE]
    /\ pc = "check"
    /\ documentText = <<>>
    /\ originalText = <<>>
    /\ settings = DefaultAxe
    /\ results \in ResultsDomain
    /\ rulesToRun = NoRunOnly
    /\ diagnostics = <<>>
    /\ failed = {}
    /\ sent = <<>>
    /\ timeoutDelay = 0
    /\ cursor = <<1, 1>> /\ sendDiagnosticsCalls = 0

\* lines 118-126: an activation for a locked URI logs and returns; otherwise
\* the token is built from progressCounter++ and the create request is sent
InProgressCheck ==
    /\ pc = "check"
    /\ IF AlreadyInProgress(ProgressUri)
       THEN pc' = "skipped" /\ UNCHANGED progressCounter
       ELSE pc' = "create" /\ progressCounter' = progressCounter + 1
    /\ UNCHANGED <<documents, texts, currentSettings, validationTimeout, timers,
                   validatingDocuments, runs, published, pubVer, burst, followupOwed,
                   afterSave, documentText, originalText, settings, results, rulesToRun,
                   diagnostics, failed, sent, timeoutDelay, cursor, sendDiagnosticsCalls>>

\* lines 126-137: the host answers the create request; on success the lock is
\* taken, 'begin' is sent and analyzer.analyze is called, which reads the text
\* (part_000 line 30); a rejected request throws into the catch of line 142
CreateAnswered ==
    /\ pc = "create"
    /\ \/ /\ validatingDocuments' = validatingDocuments \cup {ProgressUri}
          /\ sent' = Append(sent, "begin")
          /\ documentText' = SampleText
          /\ originalText' = SampleText
          /\ pc' = "preprocess"
          /\ UNCHANGED failed
       \/ /\ failed' = failed \cup {"create"}
          /\ pc' = "catch"
          /\ UNCHANGED <<validatingDocuments, sent, documentText, originalText>>
    /\ UNCHANGED <<documents, texts, currentSettings, validationTimeout, timers,
                   progressCounter, runs, published, pubVer, burst, followupOwed,
                   afterSave, settings, results, rulesToRun, diagnostics, timeoutDelay, cursor, sendDiagnosticsCalls>>

\* lines 139-140: the diagnostics of the analysis are published
Publish ==
    /\ pc = "resolved"
    /\ published' = [published EXCEPT ![ProgressUri] = Len(diagnostics)]
    /\ pubVer' = [pubVer EXCEPT ![ProgressUri] = texts[ProgressUri].ver]
    /\ sendDiagnosticsCalls' = sendDiagnosticsCalls + 1
    /\ pc' = "finally"
    /\ UNCHANGED <<documents, texts, currentSettings, validationTimeout, timers,
                   validatingDocuments, progressCounter, runs, burst, followupOwed,
                   afterSave, documentText, originalText, settings, results,
                   rulesToRun, diagnostics, failed, sent, timeoutDelay, cursor>>

\* a catch that logs the error and publishes nothing
CatchSilent ==
    /\ pc \in {"catch", "rejected"}
    /\ pc' = "finally"
    /\ UNCHANGED <<serverVars, documentText, originalText, settings, results, rulesToRun,
                   diagnostics, failed, sent, timeoutDelay, cursor, sendDiagnosticsCalls>>

\* lines 142-144: the catch logs and publishes the empty array
Catch ==
    /\ pc \in {"catch", "rejected"}
    /\ published' = [published EXCEPT ![ProgressUri] = Clear]
    /\ sendDiagnosticsCalls' = sendDiagnosticsCalls + 1
    /\ pc' = "finally"
    /\ UNCHANGED <<documents, texts, currentSettings, validationTimeout, timers,
                   validatingDocuments, progressCounter, runs, pubVer, burst,
                   followupOwed, afterSave, documentText, originalText, settings,
                   results, rulesToRun, diagnostics, failed, sent, timeoutDelay, cursor>>

\* lines 145-150: the lock is released and, progressToken being set since
\* line 125, 'end' is sent
Finally ==
    /\ pc = "finally"
    /\ validatingDocuments' = validatingDocuments \ {ProgressUri}
    /\ sent' = Append(sent, "end")
    /\ pc' = "done"
    /\ UNCHANGED <<documents, texts, currentSettings, validationTimeout, timers,
                   progressCounter, runs, published, pubVer, burst, followupOwed,
                   afterSave, documentText, originalText, settings, results,
                   rulesToRun, diagnostics, failed, timeoutDelay, cursor, sendDiagnosticsCalls>>

NextProgress ==
    \/ InProgressCheck
    \/ CreateAnswered
    \/ Preprocess /\ UNCHANGED <<serverVars, timeoutDelay, cursor, sendDiagnosticsCalls>>
    \/ CreateDom /\ UNCHANGED <<serverVars, timeoutDelay, cursor, sendDiagnosticsCalls>>
    \/ InjectAxe /\ UNCHANGED <<serverVars, timeoutDelay, cursor, sendDiagnosticsCalls>>
    \/ DefineChecks /\ UNCHANGED <<serverVars, timeoutDelay, cursor, sendDiagnosticsCalls>>
    \/ RunChecks /\ UNCHANGED <<serverVars, timeoutDelay, cursor, sendDiagnosticsCalls>>
    \/ ProcessViolation /\ UNCHANGED <<serverVars, timeoutDelay, cursor, sendDiagnosticsCalls>>
    \/ ProcessDone /\ UNCHANGED <<serverVars, timeoutDelay, cursor, sendDiagnosticsCalls>>
    \/ Return /\ UNCHANGED <<serverVars, timeoutDelay, cursor, sendDiagnosticsCalls>>
    \/ Publish
    \/ Catch
    \/ Finally

SpecProgress == InitProgress /\ [][NextProgress]_vars

\* ---- the legacy server: the range of each violation node ----
\* the characters of a text or a markup snippet: two letters and the line feed
TextChars == {"a", "b", "LF"}

SeqsUpTo(S, n) == UNION {[1..k -> S] : k \in 0..n}

\* textDocument.getText()
LegacyTexts == SeqsUpTo(TextChars, MaxText)

\* element.outerHTML and node.html; the empty sequence stands for a node.html
\* that is absent or the empty string (node.html || '')
Snippets == SeqsUpTo(TextChars, MaxSnippet)

\* a node of a violation: what document.querySelector(selector) does with its
\* target (an element, null, or an exception for a selector that is no valid
\* CSS), outerHTML of that element, and the recorded snippet
AxeNodes ==
    {[query |-> "element", outerHTML |-> o, html |-> h] :
        o \in Snippets \ {<<>>}, h \in Snippets}
    \cup {[query |-> q, outerHTML |-> <<>>, html |-> h] :
            q \in {"null", "throws"}, h \in Snippets}

\* String.prototype.indexOf: the least 0-based offset at which s occurs in t,
\* -1 when it occurs nowhere; the empty string occurs at offset 0
indexOf(t, s) ==
    LET hits == {i \in 0..Len(t) :
                    i + Len(s) <= Len(t) /\ SubSeq(t, i + 1, i + Len(s)) = s}
    IN IF hits = {} THEN -1 ELSE Min(hits)

\* TextDocument.positionAt: the offset is clamped to the text, the line is
\* the number of line breaks before it, the character the distance from the
\* start of that line
positionAt(t, offset) ==
    LET o == IF offset < 0 THEN 0 ELSE IF offset > Len(t) THEN Len(t) ELSE offset
        breaks == {j \in 1..o : t[j] = "LF"}
        lineStart == IF breaks = {} THEN 0 ELSE CHOOSE j \in breaks : \A k \in breaks : k <= j
    IN [line |-> Cardinality(breaks), character |-> o - lineStart]

\* lines 357-359: startPos, endPos and locationFound before any search
NotLocated ==
    [start |-> [line |-> 0, character |-> 0],
     end |-> [line |-> 0, character |-> 1],
     locationFound |-> FALSE]

\* lines 371-373 (and 378-380, 389-391, 400-402): a hit of length n at index
Located(t, index, n) ==
    [start |-> positionAt(t, index),
     end |-> positionAt(t, index + n),
     locationFound |-> TRUE]

\* a fallback that never searches the text
FallbackSkipped(t, node) == NotLocated

\* lines 375-382, 386-393 and 397-404: the search for node.html || ''
Fallback(t, node) ==
    LET indexFallback == indexOf(t, node.html)
    IN IF indexFallback # -1
       THEN Located(t, indexFallback, Len(node.html))
       ELSE NotLocated

\* lines 362-405: the element's outer markup first, the recorded snippet when
\* that is not found, when there is no element and when the query threw
Locate(t, node) ==
    IF node.query = "element"
    THEN LET index == indexOf(t, node.outerHTML)
         IN IF index # -1
            THEN Located(t, index, Len(node.outerHTML))
            ELSE Fallback(t, node)
    ELSE Fallback(t, node)

\* a try block that leaves the call of querySelector uncovered
InNodeTryExceptQuery(stmt) == stmt \in {"outerHTML", "indexOf", "positionAt"}

\* the statements of a round that lie in the try block of lines 362-395
InNodeTry(stmt) == stmt \in {"querySelector", "outerHTML", "indexOf", "positionAt"}

\* lines 347-354: the switch over violation.impact, default Information
LegacySeverity(impact) ==
    CASE impact \in {"critical", "serious"} -> "Error"
      [] impact = "moderate" -> "Warning"
      [] impact = "minor" -> "Information"
      [] OTHER -> "Information"

\* lines 407-421: the diagnostic of one node
NodeDiagnostic(violation, loc) ==
    [severity |-> LegacySeverity(violation.impact),
     range |-> [startLine |-> loc.start.line, startChar |-> loc.start.character,
                endLine |-> loc.end.line, endChar |-> loc.end.character],
     caveat |-> ~loc.locationFound,
     code |-> violation.id,
     href |-> violation.helpUrl]

\* lines 430-435: the diagnostic of the outer catch
ErrorDiagnostic ==
    [severity |-> "Error", range |-> ZeroRange, caveat |-> FALSE, code |-> "-", href |-> "-"]

\* the nodes the violations of this specification are built from: an element
\* whose outer markup is in the text, no element and a snippet that is not in
\* the text, a throwing query and a snippet that is in the text
SampleNodes ==
    {[query |-> "element", outerHTML |-> <<"a">>, html |-> <<"a">>],
     [query |-> "null", outerHTML |-> <<>>, html |-> <<"b", "b">>],
     [query |-> "throws", outerHTML |-> <<>>, html |-> <<"b">>]}

LegacyViolation(id, im, ns) ==
    [id |-> id, impact |-> im, helpUrl |-> HelpUrl(id), nodes |-> ns]

\* results of axe.run: every text with one violation of one node of every
\* kind, and one text with up to MaxViolations violations of up to MaxNodes nodes
ResolveInputs ==
    {<<t, [kind |-> "object",
           violations |-> <<LegacyViolation("image-alt", "serious", <<n>>)>>]>> :
        t \in LegacyTexts, n \in AxeNodes}
    \cup
    {<<(<<"a", "LF", "b">>), [kind |-> "object", violations |-> vs]>> :
        vs \in UNION {[1..k ->
                         {LegacyViolation(id, im, ns) :
                            id \in RuleIds, im \in {"moderate", ""},
                            ns \in UNION {[1..j -> SampleNodes] : j \in 1..MaxNodes}}] :
                      k \in 0..MaxViolations}}

\* the activation stands at the await of line 343: the lock is held, 'begin'
\* and three reports are out and axe.run is under way
InitResolve ==
    /\ documents = <<ProgressUri>>
    /\ texts = [u \in URIs |-> IF u = ProgressUri THEN [ver |-> 1, size |-> 1]
                                                   ELSE [ver |-> 0, size |-> 0]]
    /\ currentSettings = defaultSettings
    /\ validationTimeout = NoTimer
    /\ timers = NoTimers
    /\ validatingDocuments = {ProgressUri}
    /\ progressCounter = 1
    /\ runs = {}
    /\ published = [u \in URIs |-> Clear]
    /\ pubVer = [u \in URIs |-> 0]
    /\ burst = NoBurst
    /\ followupOwed = [u \in URIs |-> FALSE]
    /\ afterSave = [u \in URIs |-> FALSE]
    /\ pc = "run"
    /\ \E input \in ResolveInputs :
          /\ documentText = input[1]
          /\ originalText = input[1]
          /\ results = input[2]
    /\ settings = DefaultAxe
    /\ rulesToRun = [type |-> "tag", values |-> DefaultTags]
    /\ diagnostics = <<>>
    /\ failed = {}
    /\ sent = <<"begin", "Creating DOM...", "Injecting axe-core...", "Running axe-core...">>
    /\ timeoutDelay = 0
    /\ cursor = <<1, 1>> /\ sendDiagnosticsCalls = 0

\* lines 343-345: axe.run resolves to the results and the report follows, or
\* it rejects and control passes to the catch of line 428
RunAxe ==
    /\ pc = "run"
    /\ \/ /\ pc' = "resolve"
          /\ sent' = Append(sent, "Processing results...")
          /\ UNCHANGED failed
       \/ /\ pc' = "catch"
          /\ failed' = failed \cup {"run"}
          /\ UNCHANGED sent
    /\ UNCHANGED <<serverVars, documentText, originalText, settings, results, rulesToRun,
                   diagnostics, timeoutDelay, cursor, sendDiagnosticsCalls>>

\* lines 356-423: one round of violation.nodes.forEach.  An exception of
\* querySelector is caught at line 395 when the call lies in the try block;
\* otherwise it leaves both loops for the catch of line 428.
ResolveNode ==
    /\ pc = "resolve"
    /\ cursor[1] <= Len(results.violations)
    /\ cursor[2] <= Len(results.violations[cursor[1]].nodes)
    /\ LET violation == results.violations[cursor[1]]
           node == violation.nodes[cursor[2]]
       IN IF node.query = "throws" /\ ~InNodeTry("querySelector")
          THEN /\ pc' = "catch"
               /\ failed' = failed \cup {"querySelector"}
               /\ UNCHANGED <<diagnostics, cursor, sendDiagnosticsCalls>>
          ELSE /\ diagnostics' =
                     Append(diagnostics, NodeDiagnostic(violation, Locate(documentText, node)))
               /\ failed' = IF node.query = "throws"
                            THEN failed \cup {"querySelector"} ELSE failed
               /\ cursor' = <<cursor[1], cursor[2] + 1>>
               /\ UNCHANGED pc
    /\ UNCHANGED <<serverVars, documentText, originalText, settings, results, rulesToRun,
                   sent, timeoutDelay, sendDiagnosticsCalls>>

\* line 423-424: the nodes of a violation are done, the outer forEach goes on
NextViolation ==
    /\ pc = "resolve"
    /\ cursor[1] <= Len(results.violations)
    /\ cursor[2] > Len(results.violations[cursor[1]].nodes)
    /\ cursor' = <<cursor[1] + 1, 1>>
    /\ UNCHANGED <<serverVars, analyzeVars, timeoutDelay, sendDiagnosticsCalls>>

\* line 426: the violations are done, 'end' is sent
ResolveEnd ==
    /\ pc = "resolve"
    /\ cursor[1] > Len(results.violations)
    /\ sent' = Append(sent, "end")
    /\ pc' = "finally"
    /\ UNCHANGED <<serverVars, documentText, originalText, settings, results, rulesToRun,
                   diagnostics, failed, timeoutDelay, cursor, sendDiagnosticsCalls>>

\* lines 428-438: the outer catch adds its error diagnostic and sends 'end'
ResolveCatch ==
    /\ pc = "catch"
    /\ diagnostics' = Append(diagnostics, ErrorDiagnostic)
    /\ sent' = Append(sent, "end")
    /\ pc' = "finally"
    /\ UNCHANGED <<serverVars, documentText, originalText, settings, results, rulesToRun,
                   failed, timeoutDelay, cursor, sendDiagnosticsCalls>>

\* lines 439-444: the lock is released and the diagnostics are published
SendDiagnostics ==
    /\ pc = "finally"
    /\ validatingDocuments' = validatingDocuments \ {ProgressUri}
    /\ published' = [published EXCEPT ![ProgressUri] = Len(diagnostics)]
    /\ pubVer' = [pubVer EXCEPT ![ProgressUri] = texts[ProgressUri].ver]
    /\ sendDiagnosticsCalls' = sendDiagnosticsCalls + 1
    /\ pc' = "done"
    /\ UNCHANGED <<documents, texts, currentSettings, validationTimeout, timers,
                   progressCounter, runs, burst, followupOwed, afterSave,
                   documentText, originalText, settings, results, rulesToRun,
                   diagnostics, failed, sent, timeoutDelay, cursor>>

NextResolve ==
    \/ RunAxe
    \/ ResolveNode
    \/ NextViolation
    \/ ResolveEnd
    \/ ResolveCatch
    \/ SendDiagnostics

SpecResolve == InitResolve /\ [][NextResolve]_vars

\* ======================= the claims =======================

\* C1: for every URI, at most one activation of validateTextDocument that has
\* passed the 'already in progress' check is in flight at any time.  (Every
\* element of runs has passed that check.)
C1_AtMostOneRunPerUri == \A u \in URIs : Cardinality(RunsOf(u)) <= 1

\* C2: in onType mode with the guards passing, an edit that arrived while an
\* analysis of its URI was in flight is not dropped: as long as no further editor
\* event arrives, either an activation for that URI is still in flight or the
\* debounce timer of that document is pending, so that a further analysis
\* follows.  followupOwed[u] is set by such an edit and reset when an activation
\* for u starts and by every further editor event.
C2_EditDuringRunNotDropped ==
    \A u \in URIs :
        (followupOwed[u] /\ IsOpen(u) /\ currentSettings.run = "onType"
                         /\ GuardsPass(Live(u)))
            => (RunsOf(u) # {} \/ timers[Live(u)] > 0)

\* C3: for each URI, the text version an analysis result published for it was
\* computed from never goes back: a result of an older text never replaces a
\* result of a newer one at the host.
C3_PublishedVersionsNeverGoBack ==
    [][\A u \in URIs : pubVer'[u] >= pubVer[u]]_vars

\* C4: debounce timers are per URI: an edit to a document never cancels the
\* pending timer of a different document.
C4_EditKeepsOtherTimers ==
    [][\A u \in URIs, v \in URIs, sz \in Sizes :
          (u # v /\ timers[Live(v)] > 0 /\ DidChange(u, sz)) => timers'[Live(v)] > 0]_vars

C6_OversizedTextNeverAnalysed == \A r \in runs : ~r.over

\* C7: a validation of a document whose language id is not in includedLanguages
\* starts no activation and leaves the empty diagnostic array at the host.
C7_ExcludedLanguageNotAnalysed ==
    [][\A d \in DocRefs :
          ((TimerFire(d) \/ (onDidSave(d[1]) /\ currentSettings.run = "onSave"
                                               /\ d = Live(d[1])))
             /\ LangOf(d[1]) \notin currentSettings.includedLanguages)
          => (progressCounter' = progressCounter /\ published'[d[1]] = Clear)]_vars

\* C8: once a guard rejected a validation of a URI and published the empty
\* array, an activation that was already in flight at that moment does not
\* publish a non-empty array over the clear.
C8_ClearNotOverwrittenByOlderRun ==
    [][\A r \in runs : AnalysisDone(r, 1) => ~r.rejected]_vars

\* C9: while a document is closed (it was closed and not opened again), the
\* host shows the empty array for it and no debounce timer of it is pending.
C9_ClosedDocumentStaysCleared ==
    \A u \in URIs :
        ~IsOpen(u) => (published[u] = Clear /\ \A d \in PendingTimers(timers) : d[1] # u)

\* C10: in onSave mode, a save of a document whose analysis is in flight starts no
\* second activation, schedules none and publishes nothing.
C10_SaveDuringAnalysisIgnored ==
    [][\A u \in URIs :
          (onDidSave(u) /\ currentSettings.run = "onSave" /\ AnalysisInFlight(u))
          => UNCHANGED <<runs, progressCounter, timers, validationTimeout, published>>]_vars

\* C11: in onSave mode, a save of a document with no activation in flight
\* (its debounce timer may be pending) and passing guards starts the activation
\* in the save handler itself, arming and cancelling no timer; and when the
\* timer that was pending at the save fires afterwards, still at most one
\* activation for the URI is in flight.
C11_SaveStartsRunDirectly ==
    [][\A u \in URIs :
          /\ (onDidSave(u) /\ currentSettings.run = "onSave" /\ RunsOf(u) = {}
                           /\ GuardsPass(Live(u)))
                => /\ \E r \in runs' : r.uri = u /\ r.pc = "create"
                   /\ UNCHANGED <<timers, validationTimeout>>
          /\ (afterSave[u] /\ TimerFire(Live(u)))
                => Cardinality({r \in runs' : r.uri = u}) <= 1]_vars

\* C12: an activation uses one configuration for its whole lifetime: the
\* settings of the Analyzer that performs its analysis (whose rule list the
\* analysis takes) are the settings its guards were evaluated with: enabled,
\* and with the maxFileSize the size guard compared against.
C12_OneSettingsSnapshotPerRun ==
    [][\A r \in runs :
          CreateResolved(r)
            => (analyzer.settings.enable /\ analyzer.settings.maxFileSize = r.cap)]_vars

\* C26: the run mode decides which event starts an analysis.  In onSave mode
\* an activation starts only in the handler of a save and is one of the saved
\* document, and an edit neither arms a timer nor starts an activation; in
\* onType mode a save starts no activation.
C26_RunModeSelectsTrigger ==
    [][/\ (currentSettings.run = "onSave" /\ progressCounter' # progressCounter)
            => \E u \in URIs :
                  /\ onDidSave(u)
                  /\ \E r \in runs' : r.token = progressCounter /\ r.uri = u
       /\ \A u \in URIs, sz \in Sizes :
             (currentSettings.run = "onSave" /\ DidChange(u, sz))
                => UNCHANGED <<timers, validationTimeout, runs, progressCounter>>
       /\ \A u \in URIs :
             (currentSettings.run = "onType" /\ onDidSave(u))
                => UNCHANGED <<runs, progressCounter>>]_vars

\* C28: the lock is keyed by URI.  A validation whose guards pass and whose
\* own URI is not locked starts an activation whatever other URIs are locked,
\* and the steps of an activation leave the lock entries of all other URIs as
\* they are.
C28_LockIsPerUri ==
    [][/\ \A d \in DocRefs :
             ((TimerFire(d) \/ (onDidSave(d[1]) /\ currentSettings.run = "onSave"
                                                  /\ d = Live(d[1])))
                /\ GuardsPass(d) /\ d[1] \notin validatingDocuments)
                => progressCounter' = progressCounter + 1
       /\ \A r \in runs : \A u \in URIs \ {r.uri} :
             (CreateResolved(r) \/ CreateRejected(r) \/ AnalysisDone(r, 0) \/ AnalysisDone(r, 1))
                => (u \in validatingDocuments' <=> u \in validatingDocuments)]_vars

\* C28 witness: analyses of two different URIs are in flight, both locked
C28_Witness ==
    /\ validatingDocuments = URIs
    /\ \A u \in URIs : AnalysisInFlight(u)

\* C29: a configuration change leaves every open document with a pending
\* debounce timer, not only one of them.  (With no further event, nothing but
\* its pending timer validates a document again.)
C29_ConfigChangeRevalidatesAll ==
    [][\A s \in SettingsDomain :
          onDidChangeConfiguration(s)
            => \A u \in URIs : IsOpen(u) => timers'[Live(u)] > 0]_vars

\* C30: the lock set never leaks: a URI is in validatingDocuments only while
\* an activation for it is in flight behind its validatingDocuments.add, so
\* that once every activation for a URI has ended the URI is not locked.
C30_LockNeverLeaks ==
    \A u \in validatingDocuments : AnalysisInFlight(u)

\* C30 witness: after an analysis of a document ended and published, a later
\* validation of the same document was not skipped and is analysing
C30_Witness ==
    \E u \in URIs : pubVer[u] > 0 /\ u \in validatingDocuments /\ AnalysisInFlight(u)

\* C31: when the create request of an activation fails, the activation starts
\* no analysis, publishes the empty array for its URI and leaves
\* validatingDocuments as it was: a lock entry another activation added for
\* the same URI stays.
C31_FailedCreateLeavesLockAlone ==
    [][\A r \in runs :
          CreateRejected(r)
          => /\ published'[r.uri] = Clear
             /\ ~\E q \in runs' : q.token = r.token
             /\ progressCounter' = progressCounter
             /\ validatingDocuments' = validatingDocuments]_vars

\* C25: triggerValidation arms the debounce timer with the configured
\* debounceDelay when that is zero or positive and with 500 milliseconds when
\* it is negative, and also with a delay of 0 the validation is left to the
\* timer callback: the handler of the edit starts no activation and publishes
\* nothing.
C25_DebounceDelayOfTimer ==
    [][\A u \in URIs, sz \in Sizes :
          ((DidChange(u, sz) \/ DidOpen(u, sz)) /\ currentSettings.run = "onType")
            => /\ timers'[Live(u)] > 0
               /\ currentSettings.debounceDelay >= 0
                    => timeoutDelay' = currentSettings.debounceDelay
               /\ currentSettings.debounceDelay < 0 => timeoutDelay' = 500
               /\ UNCHANGED <<runs, progressCounter, published>>]_vars

\* C25 witness: under a negative debounceDelay an edit has armed the timer
C25_Witness ==
    /\ currentSettings.debounceDelay < 0
    /\ \E u \in URIs : texts[u].ver >= 2 /\ validationTimeout = Live(u) /\ timers[Live(u)] > 0

\* the reports of a call of Analyzer.analyze that reaches its last checkpoint
FourReports ==
    <<"Creating DOM...", "Injecting axe-core...", "Running axe-core analysis...",
      "Processing results...">>

\* C27: the notifications of a token follow the protocol: 'begin' is sent at
\* most once and before every report and every 'end'; 'end' is sent at most
\* once, last, and only for a token that received 'begin'; an activation that
\* began and is over has sent 'end'; an activation that reached the result
\* processing sent begin, the four reports in their order, and end.
C27_ProgressProtocol ==
    /\ \A i \in 1..Len(sent) : sent[i] = "begin" => i = 1
    /\ \A i \in 1..Len(sent) : sent[i] # "begin" => sent[1] = "begin"
    /\ \A i \in 1..Len(sent) : sent[i] = "end" => i = Len(sent)
    /\ (pc = "done" /\ sent # <<>>) => sent[Len(sent)] = "end"
    /\ (pc = "done" /\ failed \subseteq {"preprocess", "process"})
          => sent = <<"begin">> \o FourReports \o <<"end">>

\* C32: an activation that passed the guards and the in-progress check
\* publishes exactly one diagnostic array for its URI before it ends, whether
\* the analysis succeeded or an error was thrown; an activation skipped
\* because an analysis is in progress publishes nothing and leaves the timer
\* and the lock set as they were.
C32_OnePublicationPerRun ==
    /\ [](/\ sendDiagnosticsCalls <= 1
          /\ pc = "done" => sendDiagnosticsCalls = 1
          /\ pc = "skipped" => sendDiagnosticsCalls = 0)
    /\ [][(InProgressCheck /\ pc' = "skipped")
            => UNCHANGED <<published, pubVer, sendDiagnosticsCalls, validationTimeout,
                           timers, validatingDocuments>>]_vars

\* C32 witness: an activation whose create request was rejected has ended
\* with its one publication, a timer of another document pending
C32_Witness ==
    /\ pc = "done"
    /\ "create" \in failed
    /\ sendDiagnosticsCalls = 1
    /\ validationTimeout # NoTimer

\* ---- helpers of the claims on the result processing ----
\* the call returned and no step behind the pre-processing failed
Finished == pc = "resolved" /\ failed \subseteq {"preprocess"} /\ HasViolations

\* rule id and help link, once per offending node of each violation, in order
RECURSIVE PairsOf(_)
PairsOf(vs) ==
    IF vs = <<>> THEN <<>>
    ELSE [j \in 1..Len(Head(vs).nodes) |-> [code |-> Head(vs).id, href |-> Head(vs).helpUrl]]
         \o PairsOf(Tail(vs))

\* the range of an element with a recorded location: lines minus 1, columns as recorded
RangeOfNode(n) ==
    [startLine |-> n.startLine - 1, startChar |-> n.startCol,
     endLine |-> n.endLine - 1, endChar |-> n.endCol]

\* C13: analyze returns one diagnostic per (violation, offending node) pair,
\* each with the rule id of its violation as code and its help URL as link: a
\* violation with k nodes yields k diagnostics and the list is as long as the
\* nodes of all violations together.
C13_OneDiagnosticPerNode ==
    Finished =>
        [i \in 1..Len(diagnostics) |->
            [code |-> diagnostics[i].code, href |-> diagnostics[i].href]]
          = PairsOf(results.violations)

\* C14: for every offending node whose selector resolves to an element with a
\* recorded source location there is a diagnostic of its violation with the
\* range of that element (recorded lines minus 1, recorded columns), and a
\* diagnostic has the zero range only if a node of its violation did not resolve.
C14_RangeOfLocatedNode ==
    Finished =>
        LET vs == results.violations IN
        /\ \A i \in 1..Len(vs) : \A j \in 1..Len(vs[i].nodes) :
              vs[i].nodes[j].found =>
                  \E k \in 1..Len(diagnostics) :
                      /\ diagnostics[k].code = vs[i].id
                      /\ diagnostics[k].range = RangeOfNode(vs[i].nodes[j])
        /\ \A k \in 1..Len(diagnostics) :
              diagnostics[k].range = ZeroRange =>
                  \E i \in 1..Len(vs) : \E j \in 1..Len(vs[i].nodes) :
                      vs[i].id = diagnostics[k].code /\ ~vs[i].nodes[j].found

\* C15: the severity of a diagnostic is a total function of the impact of its
\* violation: critical and serious give Error, moderate gives Warning, minor
\* gives Information, an absent impact and an impact that is none of these four
\* names (in whatever letter case) give Warning.
C15_SeverityOfImpact ==
    \A i \in 1..Len(diagnostics) :
        LET impact == results.violations[i].impact
            severity == diagnostics[i].severity
        IN /\ severity \in {"Error", "Warning", "Information"}
           /\ impact \in {"critical", "serious"} => severity = "Error"
           /\ impact = "moderate" => severity = "Warning"
           /\ impact = "minor" => severity = "Information"
           /\ (impact = "" \/ toLowerCase(impact) \notin {"critical", "serious", "moderate", "minor"})
                => severity = "Warning"

\* C15 witness: a result with a violation without impact and one of unknown
\* impact has been processed
C15_Witness ==
    /\ pc = "resolved"
    /\ Len(diagnostics) = 2
    /\ results.violations[1].impact = ""
    /\ results.violations[2].impact = "cosmetic"

C17_RuleSetPrecedence ==
    rulesToRun # NoRunOnly =>
        rulesToRun =
            IF settings.rules.kind = "array" /\ Len(settings.rules.items) > 0
            THEN [type |-> "rule", values |-> settings.rules.items]
            ELSE IF Len(settings.tags) > 0
            THEN [type |-> "tag", values |-> settings.tags]
            ELSE [type |-> "rule", values |-> defaultRules]

\* ---- helpers of the claims on the PHP pre-processing ----
\* the number of newline characters of a text
Newlines(t) == Cardinality({j \in 1..Len(t) : t[j] = "LF"})

\* the pre-processing of the call has run and did not throw
Preprocessed == pc = "dom" /\ "preprocess" \notin failed

\* the blocks of the original text that the pre-processing replaced
Blocks == Matches(originalText, 1)

Block(m) == SubSeq(originalText, m[1], m[2])

\* position i of the original text lies in no replaced block
Outside(i) == \A m \in Blocks : i < m[1] \/ i > m[2]

\* by how much the replaced blocks in front of position i move it
RECURSIVE Shift(_, _)
Shift(M, i) ==
    IF M = {} THEN 0
    ELSE LET m == CHOOSE x \in M : TRUE
         IN (IF m[2] < i THEN Len(replacementComment(Block(m))) - Len(Block(m)) ELSE 0)
            + Shift(M \ {m}, i)

\* 0-based line and column of position i of text t
LineOf(t, i) == Cardinality({j \in 1..(i - 1) : t[j] = "LF"})
ColOf(t, i) ==
    LET breaks == {j \in 1..(i - 1) : t[j] = "LF"}
    IN IF breaks = {} THEN i - 1 ELSE i - 1 - (CHOOSE x \in breaks : \A y \in breaks : y <= x)

\* an opener "<?" at position p of t
OpenerAt(t, p) == p + 1 <= Len(t) /\ t[p] = "<" /\ t[p + 1] = "?"
CloserAt(t, e) == e + 1 <= Len(t) /\ t[e] = "?" /\ t[e + 1] = ">"

\* C18: the pre-processing replaces every matched block by a comment that
\* contains exactly as many newline characters as the block, so that the
\* processed text has as many lines as the original.
C18_BlockNewlinesPreserved ==
    Preprocessed =>
        /\ \A m \in Blocks : Newlines(replacementComment(Block(m))) = Newlines(Block(m))
        /\ Newlines(documentText) = Newlines(originalText)

\* C19: every character of the original text outside the replaced blocks is
\* found in the processed text on the same line and in the same column, also
\* when it follows a replaced block on the line where the block ends.
C19_PositionsOutsideBlocksKept ==
    Preprocessed =>
        \A i \in 1..Len(originalText) :
            Outside(i) =>
                LET j == i + Shift(Blocks, i) IN
                /\ j \in 1..Len(documentText)
                /\ documentText[j] = originalText[i]
                /\ LineOf(documentText, j) = LineOf(originalText, i)
                /\ ColOf(documentText, j) = ColOf(originalText, i)

\* C20: an opener "<?" after whose beginning no "?>" begins is left untouched:
\* the processed text ends with the original text from that opener on; and a
\* text in which no opener is followed by a "?>" is returned unchanged.
C20_UnterminatedOpenerUntouched ==
    Preprocessed =>
        LET t == originalText
            d == documentText
        IN /\ \A p \in 1..Len(t) :
                (OpenerAt(t, p) /\ ~\E e \in (p + 1)..Len(t) : CloserAt(t, e))
                    => /\ Len(d) >= Len(t) - p + 1
                       /\ SubSeq(d, Len(d) - (Len(t) - p), Len(d)) = SubSeq(t, p, Len(t))
           /\ (~\E p \in 1..Len(t), e \in 1..Len(t) :
                    OpenerAt(t, p) /\ CloserAt(t, e) /\ e >= p + 2)
                => d = t

\* C20 witness: a text with a replaced block and, behind it, an opener that is
\* never closed has been pre-processed
C20_Witness ==
    /\ Preprocessed
    /\ Blocks # {}
    /\ \E p \in 1..Len(originalText) :
          /\ OpenerAt(originalText, p)
          /\ ~\E e \in (p + 1)..Len(originalText) : CloserAt(originalText, e)

\* ---- helpers of the claims on the legacy range resolution ----
\* the nodes of all violations in the order of the two forEach loops, each
\* with its violation
RECURSIVE FlatNodes(_)
FlatNodes(vs) ==
    IF vs = <<>> THEN <<>>
    ELSE [j \in 1..Len(Head(vs).nodes) |-> [violation |-> Head(vs), node |-> Head(vs).nodes[j]]]
         \o FlatNodes(Tail(vs))

\* the 0-based offsets at which s occurs verbatim in t
Occurrences(t, s) ==
    {i \in 0..Len(t) : i + Len(s) <= Len(t) /\ SubSeq(t, i + 1, i + Len(s)) = s}

\* the diagnostics pushed for nodes, by their index in FlatNodes
NodeDiagnostics ==
    {i \in 1..Len(diagnostics) :
        i <= Len(FlatNodes(results.violations)) /\ diagnostics[i].code # "-"}

NodeAt(i) == FlatNodes(results.violations)[i].node

RangeBetween(from, to) ==
    [startLine |-> from.line, startChar |-> from.character,
     endLine |-> to.line, endChar |-> to.character]

\* the number of characters of line l (0-based) of t, its line feed left out
LineLength(t, l) ==
    Cardinality({j \in 1..Len(t) : t[j] # "LF" /\ LineOf(t, j) = l})

\* C21: when the selector of a node resolves to no element, or the query
\* throws, and the recorded snippet of the node occurs exactly once in the
\* text, the range of the node's diagnostic runs from the position of that
\* occurrence to the position of its end, and the message has no caveat.
C21_FallbackSpansTheOccurrence ==
    \A i \in NodeDiagnostics :
        (/\ NodeAt(i).query \in {"null", "throws"}
         /\ NodeAt(i).html # <<>>
         /\ Cardinality(Occurrences(documentText, NodeAt(i).html)) = 1)
        => LET offset == CHOOSE o \in Occurrences(documentText, NodeAt(i).html) : TRUE
           IN /\ diagnostics[i].range =
                    RangeBetween(positionAt(documentText, offset),
                                 positionAt(documentText, offset + Len(NodeAt(i).html)))
              /\ ~diagnostics[i].caveat

\* C21 witness: a run ended in which the query of a node threw and the node's
\* snippet, found once, lies on the second line of the text
C21_Witness ==
    /\ pc = "done"
    /\ \E i \in NodeDiagnostics :
          /\ NodeAt(i).query = "throws"
          /\ NodeAt(i).html # <<>>
          /\ Cardinality(Occurrences(documentText, NodeAt(i).html)) = 1
          /\ diagnostics[i].range.startLine = 1

\* every strategy fails for the node: the outer markup of its element, if any,
\* is not in the text, and its snippet is absent, empty or not in the text
EveryStrategyFails(t, node) ==
    /\ node.query = "element" => Occurrences(t, node.outerHTML) = {}
    /\ node.html = <<>> \/ Occurrences(t, node.html) = {}

\* C22: when every strategy fails for a node, the range of its diagnostic is
\* the zero range (0,0)-(0,0) and its message carries the caveat; no other
\* diagnostic carries the caveat.
C22_ZeroRangeAndCaveatWhenNothingFound ==
    \A i \in NodeDiagnostics :
        /\ EveryStrategyFails(documentText, NodeAt(i))
              => (diagnostics[i].range = ZeroRange /\ diagnostics[i].caveat)
        /\ diagnostics[i].caveat => EveryStrategyFails(documentText, NodeAt(i))

\* C23: a failure while the range of a node is resolved stays with that node:
\* while the loops run, the diagnostics are those of the nodes so far, one per
\* node and in order, each with the rule id and the help link of its
\* violation; when the loops are over there is one for every node of every
\* violation.
C23_ResolutionFailureIsLocal ==
    (pc \in {"resolve", "finally", "done"} /\ "run" \notin failed)
    => LET flat == FlatNodes(results.violations)
       IN /\ Len(diagnostics) <= Len(flat)
          /\ \A i \in 1..Len(diagnostics) :
                /\ diagnostics[i].code = flat[i].violation.id
                /\ diagnostics[i].href = flat[i].violation.helpUrl
          /\ pc \in {"finally", "done"} => Len(diagnostics) = Len(flat)

\* C23 witness: a run over two violations ended in which a query threw at a
\* node that was not the last one and nothing was found for another node
C23_Witness ==
    /\ pc = "done"
    /\ Len(results.violations) = 2
    /\ \E i \in NodeDiagnostics :
          NodeAt(i).query = "throws" /\ i < Len(FlatNodes(results.violations))
    /\ \E i \in NodeDiagnostics : diagnostics[i].caveat
    /\ Len(diagnostics) = Len(FlatNodes(results.violations))

\* C24: every range of a diagnostic has non-negative lines and characters, a
\* start that is not after its end, and both positions inside the text (a line
\* of the text and a character of at most the length of that line); for an
\* empty text every range is (0,0)-(0,0).
C24_RangeWithinDocument ==
    \A i \in 1..Len(diagnostics) :
        LET r == diagnostics[i].range
        IN /\ r.startLine >= 0 /\ r.startChar >= 0 /\ r.endLine >= 0 /\ r.endChar >= 0
           /\ r.startLine < r.endLine \/ (r.startLine = r.endLine /\ r.startChar <= r.endChar)
           /\ r.startLine <= Newlines(documentText)
           /\ r.endLine <= Newlines(documentText)
           /\ r.startChar <= LineLength(documentText, r.startLine)
           /\ r.endChar <= LineLength(documentText, r.endLine)
           /\ documentText = <<>> => r = ZeroRange

====
